---- MODULE Spec2Model ----
(***************************************************************************)
(* Text-to-audio preview synthesis (utils/audioGenerator.ts) and its WAV   *)
(* encoder.  A description is a sequence of one-character strings; the     *)
(* derived parameters, the audio graph built for a render, the rendered    *)
(* buffer and the encoded file are the state.                              *)
(***************************************************************************)
EXTENDS Integers, Sequences, FiniteSets, TLC

(***************************************************************************)
(* Bounds of the model.                                                    *)
(***************************************************************************)
\* a description is the concatenation of at most MaxWords fragments
MaxWords == 2
\* frames per second rendered by the model's offline context (the code: 44100)
ModelSampleRate == 1
\* number of distinct streams Math.random may produce
NumSeeds == 2
\* largest channel count / frame count of a buffer given to the encoder alone
MaxChannels == 2
MaxFrames == 2
\* frames of a snare's noise buffer in the model (the code: sampleRate * 0.2)
ModelNoiseFrames == 1
\* how far the channel counts of the wide buffers go around a field limit
MaxExcess == 8

(***************************************************************************)
(* Characters and strings.                                                 *)
(***************************************************************************)
UpperCase ==
    <<"A","B","C","D","E","F","G","H","I","J","K","L","M",
      "N","O","P","Q","R","S","T","U","V","W","X","Y","Z">>
LowerCase ==
    <<"a","b","c","d","e","f","g","h","i","j","k","l","m",
      "n","o","p","q","r","s","t","u","v","w","x","y","z">>
Digits == <<"0","1","2","3","4","5","6","7","8","9">>

\* String.prototype.toLowerCase
toLowerCaseChar(c) ==
    IF \E k \in 1..Len(UpperCase) : UpperCase[k] = c
    THEN LowerCase[CHOOSE k \in 1..Len(UpperCase) : UpperCase[k] = c]
    ELSE c
toLowerCase(s) == SubSeq([i \in 1..Len(s) |-> toLowerCaseChar(s[i])], 1, Len(s))

\* String.prototype.includes
includes(s, word) ==
    \E i \in 1..(Len(s) - Len(word) + 1) : SubSeq(s, i, i + Len(word) - 1) = word

\* the regular-expression classes \d and \s
IsDigit(c) == \E k \in 1..Len(Digits) : Digits[k] = c
IsSpace(c) == c \in {" ", "\t", "\n"}

\* parseInt(text, 10) on a run of decimal digits
RECURSIVE parseInt(_)
parseInt(text) ==
    IF text = <<>> THEN 0
    ELSE parseInt(SubSeq(text, 1, Len(text) - 1)) * 10
         + ((CHOOSE k \in 1..Len(Digits) : Digits[k] = text[Len(text)]) - 1)

KW_reverb == <<"r","e","v","e","r","b">>
KW_delay == <<"d","e","l","a","y">>
KW_bpm == <<"b","p","m">>
KW_slow == <<"s","l","o","w">>
KW_fast == <<"f","a","s","t">>
KW_upbeat == <<"u","p","b","e","a","t">>
KW_minor == <<"m","i","n","o","r">>
KW_dissonant == <<"d","i","s","s","o","n","a","n","t">>
KW_atonal == <<"a","t","o","n","a","l">>
KW_pentatonic == <<"p","e","n","t","a","t","o","n","i","c">>
KW_heartbeat == <<"h","e","a","r","t","b","e","a","t">>
KW_choir == <<"c","h","o","i","r">>
KW_soft == <<"s","o","f","t">>
KW_synth == <<"s","y","n","t","h">>
KW_string == <<"s","t","r","i","n","g">>
KW_rumble == <<"r","u","m","b","l","e">>
KW_drone == <<"d","r","o","n","e">>
KW_bell == <<"b","e","l","l">>
KW_music_box == <<"m","u","s","i","c"," ","b","o","x">>
KW_glockenspiel == <<"g","l","o","c","k","e","n","s","p","i","e","l">>
KW_piano == <<"p","i","a","n","o">>
KW_detuned == <<"d","e","t","u","n","e","d">>
KW_drum == <<"d","r","u","m">>
KW_beat == <<"b","e","a","t">>
KW_percussion == <<"p","e","r","c","u","s","s","i","o","n">>
KW_pad == <<"p","a","d">>
KW_chord == <<"c","h","o","r","d">>
KW_bass == <<"b","a","s","s">>
KW_melody == <<"m","e","l","o","d","y">>

\* /(\d+)\s*bpm/ matches s at i with the group ending at j and "bpm" at k
MatchesAt(s, i, j, k) ==
    /\ i <= j /\ j < k /\ k + 2 <= Len(s)
    /\ \A p \in i..j : IsDigit(s[p])
    /\ \A p \in (j + 1)..(k - 1) : IsSpace(s[p])
    /\ SubSeq(s, k, k + 2) = KW_bpm

\* String.prototype.match(/(\d+)\s*bpm/): the leftmost match, the group greedy;
\* <<>> stands for null, otherwise the captured group
bpmMatch(s) ==
    LET starts == {i \in 1..Len(s) :
                      /\ IsDigit(s[i])
                      /\ \E j \in i..Len(s) : \E k \in (j + 1)..Len(s) :
                            MatchesAt(s, i, j, k)}
    IN  IF starts = {} THEN <<>>
        ELSE LET i == CHOOSE a \in starts : \A b \in starts : a <= b
                 ends == {j \in i..Len(s) :
                             \E k \in (j + 1)..Len(s) : MatchesAt(s, i, j, k)}
                 j == CHOOSE a \in ends : \A b \in ends : b <= a
             IN  SubSeq(s, i, j)

(***************************************************************************)
(* Parameter extraction (generateAudioPreview, lines 34-71).               *)
(***************************************************************************)
duration == 10
baseFreq == 220

\* the tempo with the keywords taking priority over a "<N> bpm" token
bpm_KeywordsOverToken(lowerDesc) ==
    LET m == bpmMatch(lowerDesc)
    IN  IF includes(lowerDesc, KW_fast) \/ includes(lowerDesc, KW_upbeat) THEN 140
        ELSE IF includes(lowerDesc, KW_slow) THEN 80
        ELSE IF m # <<>> THEN parseInt(m) ELSE 120

\* the tempo with the two keyword tests in the other order
bpm_SlowAssignedLast(lowerDesc) ==
    LET m == bpmMatch(lowerDesc)
        b1 == IF includes(lowerDesc, KW_fast) \/ includes(lowerDesc, KW_upbeat)
              THEN 140 ELSE 120
        b2 == IF includes(lowerDesc, KW_slow) THEN 80 ELSE b1
    IN  IF m # <<>> THEN parseInt(m) ELSE b2

\* let bpm = 120; ... (lines 52-59)
bpm(lowerDesc) ==
    LET m == bpmMatch(lowerDesc)
        b1 == IF includes(lowerDesc, KW_slow) THEN 80 ELSE 120
        b2 == IF includes(lowerDesc, KW_fast) \/ includes(lowerDesc, KW_upbeat)
              THEN 140 ELSE b1
    IN  IF m # <<>> THEN parseInt(m) ELSE b2

\* the scale with the "minor" test made after the "dissonant"/"atonal" test
scale_MinorAssignedLater(lowerDesc) ==
    LET s0 == <<0, 2, 4, 5, 7, 9, 11>>
        s1 == IF includes(lowerDesc, KW_dissonant) \/ includes(lowerDesc, KW_atonal)
              THEN <<0, 1, 4, 5, 8, 9>> ELSE s0
        s2 == IF includes(lowerDesc, KW_minor) THEN <<0, 2, 3, 5, 7, 8, 10>> ELSE s1
        s3 == IF includes(lowerDesc, KW_pentatonic) THEN <<0, 2, 4, 7, 9>> ELSE s2
    IN  s3

\* let scale = [...] (lines 63-66): each later assignment overrides
scale(lowerDesc) ==
    LET s0 == <<0, 2, 4, 5, 7, 9, 11>>
        s1 == IF includes(lowerDesc, KW_minor) THEN <<0, 2, 3, 5, 7, 8, 10>> ELSE s0
        s2 == IF includes(lowerDesc, KW_dissonant) \/ includes(lowerDesc, KW_atonal)
              THEN <<0, 1, 4, 5, 8, 9>> ELSE s1
        s3 == IF includes(lowerDesc, KW_pentatonic) THEN <<0, 2, 4, 7, 9>> ELSE s2
    IN  s3

\* the harmonic mode read off the chosen scale instead of the text
isMinor_FromScale(lowerDesc) == scale(lowerDesc) = <<0, 2, 3, 5, 7, 8, 10>>

isMinor(lowerDesc) == includes(lowerDesc, KW_minor)

chordProgression(lowerDesc) ==
    IF isMinor(lowerDesc)
    THEN << <<0, 3, 7>>, <<8, 0, 3>>, <<3, 7, 10>>, <<10, 2, 5>> >>
    ELSE << <<0, 4, 7>>, <<7, 11, 2>>, <<9, 0, 4>>, <<5, 9, 0>> >>

\* the drum condition reading "no drum" as a negation
wantsDrums_NegationAware(lowerDesc) ==
    /\ \/ includes(lowerDesc, KW_drum) \/ includes(lowerDesc, KW_beat)
       \/ includes(lowerDesc, KW_percussion) \/ includes(lowerDesc, KW_heartbeat)
    /\ ~includes(lowerDesc, <<"n","o"," ","d","r","u","m">>)

\* the melody layer built for every description
wantsMelody_Always(lowerDesc) == TRUE

\* the four conditions of "Build Audio Based on Description" (lines 223-234)
wantsDrums(lowerDesc) ==
    \/ includes(lowerDesc, KW_drum) \/ includes(lowerDesc, KW_beat)
    \/ includes(lowerDesc, KW_percussion) \/ includes(lowerDesc, KW_heartbeat)
wantsHarmony(lowerDesc) ==
    \/ includes(lowerDesc, KW_pad) \/ includes(lowerDesc, KW_string)
    \/ includes(lowerDesc, KW_choir) \/ includes(lowerDesc, KW_chord)
wantsBass(lowerDesc) ==
    \/ includes(lowerDesc, KW_bass) \/ includes(lowerDesc, KW_drone)
    \/ includes(lowerDesc, KW_rumble)
wantsMelody(lowerDesc) ==
    \/ includes(lowerDesc, KW_melody) \/ includes(lowerDesc, KW_piano)
    \/ includes(lowerDesc, KW_bell) \/ includes(lowerDesc, KW_music_box)
    \/ includes(lowerDesc, KW_glockenspiel)

(***************************************************************************)
(* Times are exact fractions <<numerator, denominator>> of a second.  A    *)
(* zero denominator is a non-finite double: <<0, 0>> is NaN (0 * Infinity) *)
(* and <<n, 0>> with n > 0 is Infinity, as 60 / 0 is in the code.          *)
(***************************************************************************)
Seconds(n) == <<n, 1>>
Hundredths(n) == <<n, 100>>
Times(k, t) == <<k * t[1], t[2]>>
Plus(t, u) == <<t[1] * u[2] + u[1] * t[2], t[2] * u[2]>>
IsFinite(t) == t[2] # 0
Less(t, u) == t[1] * u[2] < u[1] * t[2]

\* const beatDuration = 60 / bpm (line 60)
beatDuration(b) == <<60, b>>

\* the tempos below 1000 and the divisors per at which duration / (60 / bpm / per),
\* a whole number, comes out just above it in double precision
\* (10 / (60 / 366) = 61.00000000000001), so that the loop runs once more
RoundsUp ==
    {<<366, 1>>, <<462, 1>>, <<732, 1>>, <<924, 1>>,
     <<183, 2>>, <<231, 2>>, <<366, 2>>, <<462, 2>>, <<633, 2>>, <<732, 2>>,
     <<735, 2>>, <<924, 2>>, <<957, 2>>}

\* the indices i of "for (let i = 0; i < duration / step; i++)", step = beatDuration / per
\* (duration / Infinity is 0: no iteration)
LoopIndices(b, per) ==
    {i \in 0..((duration * b * per) \div 60) :
        i * 60 < duration * b * per \/ (i * 60 = duration * b * per /\ <<b, per>> \in RoundsUp)}

(***************************************************************************)
(* Math.random: one of NumSeeds streams of values in [0, 1), in            *)
(* thousandths; a value is read at a draw site (an integer).               *)
(***************************************************************************)
Seeds == 1..NumSeeds
random(seed, site) == (seed * 389 + site * 211 + seed * site * 97) % 1000

\* fixed-point arithmetic on samples and gains, in thousandths
Trunc(num, den) == IF num >= 0 THEN num \div den ELSE -((-num) \div den)
Mul(a, b) == Trunc(a * b, 1000)

RECURSIVE Sum(_, _)
Sum(f, S) ==
    IF S = {} THEN 0
    ELSE LET x == CHOOSE y \in S : TRUE IN f[x] + Sum(f, S \ {x})

(***************************************************************************)
(* The audio graph.  A source event is one started oscillator or buffer    *)
(* source; the nodes created once per event are named by their role.       *)
(***************************************************************************)
Event(node, index, start, stop, freq, detune, type, buffer) ==
    [node |-> node, index |-> index, start |-> start, stop |-> stop,
     freq |-> freq, detune |-> detune, type |-> type, buffer |-> buffer]

\* "Effects Chain" and "Connect effects if specified" (lines 16-49)
impulseFrames == 2 * ModelSampleRate
impulse(seed) ==
    [i \in 0..1 |-> [j \in 0..(impulseFrames - 1) |->
        Mul(random(seed, i * impulseFrames + j) * 2 - 1000,
            Mul(1000 - Trunc(j * 1000, impulseFrames),
                1000 - Trunc(j * 1000, impulseFrames)))]]

effectEdges(lowerDesc) ==
    {<<"masterGain", "destination">>}
    \cup (IF includes(lowerDesc, KW_reverb)
          THEN {<<"masterGain", "reverb">>, <<"reverb", "reverbGain">>,
                <<"reverbGain", "destination">>}
          ELSE {})
    \cup (IF includes(lowerDesc, KW_delay)
          THEN {<<"masterGain", "delay">>, <<"delay", "feedback">>,
                <<"feedback", "delay">>, <<"delay", "delayGain">>,
                <<"delayGain", "destination">>}
          ELSE {})

\* 1. Percussion Layer (lines 76-116)
noiseSite(i, j) == 1000 + i * ModelNoiseFrames + j
createDrumsEvents(lowerDesc, b, seed) ==
    LET heartbeat == includes(lowerDesc, KW_heartbeat)
        time(i) == Times(i, beatDuration(b))
        kicks == {i \in LoopIndices(b, 1) : i % 2 = 0 \/ heartbeat}
        snares == {i \in LoopIndices(b, 1) : i % 2 # 0 /\ ~heartbeat}
    IN  {Event("kickOsc", <<i>>, time(i), Plus(time(i), Hundredths(15)),
               <<150, 0>>, 0, "sine", <<>>) : i \in kicks}
        \cup
        {Event("noise", <<i>>, time(i), Plus(time(i), Hundredths(15)),
               <<0, 0>>, 0, "buffer",
               [j \in 1..ModelNoiseFrames |-> random(seed, noiseSite(i, j)) * 2 - 1000])
           : i \in snares}
createDrumsEdges(events) ==
    {<<"drums.gain", "masterGain">>}
    \cup (IF \E e \in events : e.node = "kickOsc"
          THEN {<<"kickEnv", "drums.gain">>, <<"kickOsc", "kickEnv">>} ELSE {})
    \cup (IF \E e \in events : e.node = "noise"
          THEN {<<"snareEnv", "drums.gain">>, <<"noise", "noiseFilter">>,
                <<"noiseFilter", "snareEnv">>} ELSE {})

\* 2. Harmony Layer (lines 119-149)
harmonyOscType(lowerDesc) ==
    LET t1 == IF includes(lowerDesc, KW_choir) \/ includes(lowerDesc, KW_soft)
              THEN "sine" ELSE "sawtooth"
    IN  IF includes(lowerDesc, KW_synth) THEN "square" ELSE t1
\* detuning for pads as well as for strings
detuneAmount_ForPads(lowerDesc) ==
    IF includes(lowerDesc, KW_string) \/ includes(lowerDesc, KW_pad) THEN 5 ELSE 0

detuneAmount(lowerDesc) == IF includes(lowerDesc, KW_string) THEN 5 ELSE 0
detuneList(lowerDesc) ==
    <<0 - detuneAmount(lowerDesc), 0, detuneAmount(lowerDesc)>>
createHarmonyEvents(lowerDesc, b) ==
    LET chords == chordProgression(lowerDesc)
        first == scale(lowerDesc)[1]
        oscType == harmonyOscType(lowerDesc)
        amount == detuneAmount(lowerDesc)
        detunes == detuneList(lowerDesc)
        time(i) == Times(4, Times(i, beatDuration(b)))
    IN  {Event("harmony.osc", <<i, n, k>>, time(i),
               Plus(time(i), Times(4, beatDuration(b))),
               <<baseFreq, chords[i + 1][n] + first>>,
               detunes[k], oscType, <<>>)
           : <<i, n, k>> \in
               {<<i, n, k>> \in (0..(Len(chords) - 1)) \X (1..3) \X (1..3) :
                   /\ n <= Len(chords[i + 1])
                   /\ ~(detunes[k] = 0 /\ amount # 0)}}
createHarmonyEdges(events) ==
    {<<"harmony.gain", "harmony.filter">>, <<"harmony.filter", "masterGain">>}
    \cup (IF events # {} THEN {<<"harmony.osc", "harmony.gain">>} ELSE {})

\* 3. Bass Layer (lines 152-174)
bassOscType(lowerDesc) ==
    IF includes(lowerDesc, KW_rumble) \/ includes(lowerDesc, KW_drone)
    THEN "sine" ELSE "square"
createBassEvents(lowerDesc, b) ==
    LET chords == chordProgression(lowerDesc)
        first == scale(lowerDesc)[1]
        oscType == bassOscType(lowerDesc)
        time(i) == Times(4, Times(i, beatDuration(b)))
    IN  {Event("bass.osc", <<i>>, time(i), Plus(time(i), Times(4, beatDuration(b))),
               <<baseFreq \div 2, chords[i + 1][1] + first>>,
               0, oscType, <<>>)
           : i \in 0..(Len(chords) - 1)}
createBassEdges(events) ==
    {<<"bass.gain", "bass.filter">>, <<"bass.filter", "masterGain">>}
    \cup (IF events # {} THEN {<<"bass.osc", "bass.gain">>} ELSE {})

\* 4. Melody Layer (lines 177-220)
gateSite(i) == 100000 + 2 * i
noteSite(i) == 100000 + 2 * i + 1
melodyLong(lowerDesc) == includes(lowerDesc, KW_piano) \/ includes(lowerDesc, KW_bell)
melodyOscType(lowerDesc) ==
    IF \/ includes(lowerDesc, KW_bell) \/ includes(lowerDesc, KW_music_box)
       \/ includes(lowerDesc, KW_glockenspiel) \/ includes(lowerDesc, KW_piano)
    THEN "sine" ELSE "triangle"
createMelodyEvents(lowerDesc, b, seed) ==
    LET sc == scale(lowerDesc)
        oscType == melodyOscType(lowerDesc)
        detune == IF includes(lowerDesc, KW_detuned) THEN -25 ELSE 0
        long == melodyLong(lowerDesc)
        half(i) == <<60 * i, 2 * b>>
        played == {i \in LoopIndices(b, 2) : random(seed, gateSite(i)) > 300}
        noteIndex(i) == (random(seed, noteSite(i)) * Len(sc)) \div 1000
        decayTime(i) == IF long
                        THEN Plus(half(i), Times(2, beatDuration(b)))
                        ELSE Plus(half(i), <<60, 2 * b>>)
    IN  {Event("melody.osc", <<i>>, half(i), decayTime(i),
               <<baseFreq, sc[noteIndex(i) + 1] + 12>>, detune, oscType, <<>>)
           : i \in played}
createMelodyEdges(events) ==
    {<<"melody.gain", "masterGain">>}
    \cup (IF events # {} THEN {<<"melody.env", "melody.gain">>,
                               <<"melody.osc", "melody.env">>} ELSE {})

\* "Build Audio Based on Description" (lines 222-234).  scheduling an event at a
\* non-finite time throws inside the promise executor, which ends the build
Throws(events) == \E e \in events : ~IsFinite(e.start) \/ ~IsFinite(e.stop)
buildAudio(lowerDesc, b, seed) ==
    LET drums == createDrumsEvents(lowerDesc, b, seed)
        harmony == createHarmonyEvents(lowerDesc, b)
        bass == createBassEvents(lowerDesc, b)
        melody == createMelodyEvents(lowerDesc, b, seed)
        runDrums == wantsDrums(lowerDesc)
        runHarmony == wantsHarmony(lowerDesc)
        threwHarmony == runHarmony /\ Throws(harmony)
        runBass == wantsBass(lowerDesc) /\ ~threwHarmony
        threwBass == runBass /\ Throws(bass)
        runMelody == wantsMelody(lowerDesc) /\ ~threwHarmony /\ ~threwBass
        evD == IF runDrums THEN drums ELSE {}
        evH == IF runHarmony /\ ~threwHarmony THEN harmony ELSE {}
        evB == IF runBass /\ ~threwBass THEN bass ELSE {}
        evM == IF runMelody THEN melody ELSE {}
    IN  [layers |-> (IF runDrums THEN {"drums"} ELSE {})
                    \cup (IF runHarmony THEN {"harmony"} ELSE {})
                    \cup (IF runBass THEN {"bass"} ELSE {})
                    \cup (IF runMelody THEN {"melody"} ELSE {}),
         events |-> evD \cup evH \cup evB \cup evM,
         edges |-> effectEdges(lowerDesc)
                   \cup (IF runDrums THEN createDrumsEdges(evD) ELSE {})
                   \cup (IF runHarmony THEN createHarmonyEdges(evH) ELSE {})
                   \cup (IF runBass THEN createBassEdges(evB) ELSE {})
                   \cup (IF runMelody THEN createMelodyEdges(evM) ELSE {}),
         threw |-> threwHarmony \/ threwBass]

(***************************************************************************)
(* Offline rendering (context.startRendering, line 236).  Every node of    *)
(* the graph is linear: a gain scales the sum of its inputs, a filter      *)
(* passes it, the convolver convolves it with the impulse response, the    *)
(* delay holds it for a frame.  A started source contributes full scale    *)
(* (an oscillator) or its buffer (a buffer source) while it plays.         *)
(***************************************************************************)
SourceNodes == {"kickOsc", "noise", "harmony.osc", "bass.osc", "melody.osc"}
gainValue(node) ==
    CASE node = "masterGain" -> 500
      [] node = "feedback" -> 400
      [] node = "reverbGain" -> 600
      [] node = "delayGain" -> 500
      [] node = "drums.gain" -> 800
      [] node = "snareEnv" -> 800
      [] node = "harmony.gain" -> 400
      [] node = "bass.gain" -> 700
      [] node = "melody.gain" -> 600
      [] OTHER -> 1000

Active(e, n) ==
    /\ ~Less(<<n, ModelSampleRate>>, e.start)
    /\ Less(<<n, ModelSampleRate>>, e.stop)
SourceValue(e, n) ==
    IF ~Active(e, n) THEN 0
    ELSE IF e.type = "buffer"
         THEN LET idx == (n * e.start[2] - e.start[1] * ModelSampleRate) \div e.start[2]
              IN  IF idx < Len(e.buffer) THEN e.buffer[idx + 1] ELSE 0
         ELSE 1000

RECURSIVE Power(_, _)
Power(gain, k) == IF k = 0 THEN 1000 ELSE Mul(gain, Power(gain, k - 1))

\* the signal at node in frame n of channel ch.  master, when not empty, holds the
\* frames of the signal at masterGain, which is the same in both channels
RECURSIVE Out(_, _, _, _, _)
Out(g, node, n, ch, master) ==
    IF n < 0 THEN 0
    ELSE IF node = "masterGain" /\ master # <<>> THEN master[n + 1]
    ELSE LET inputs == {u \in {e[1] : e \in g.edges} : <<u, node>> \in g.edges}
             in(m) == Sum([u \in inputs |-> Out(g, u, m, ch, master)], inputs)
         IN  IF node \in SourceNodes
             THEN LET mine == {e \in g.events : e.node = node /\ Active(e, n)}
                      buffers == {e \in mine : e.type = "buffer"}
                  IN  1000 * Cardinality(mine \ buffers)
                      + Sum([e \in buffers |-> SourceValue(e, n)], buffers)
             ELSE IF node = "reverb"
             THEN Sum([k \in 0..(impulseFrames - 1) |->
                          Mul(g.impulse[ch][k], in(n - k))], 0..(impulseFrames - 1))
             ELSE IF node = "delay"
             THEN \* one frame of delay; the loop delay -> feedback -> delay adds the
                  \* input of k frames ago scaled by the k-1'th power of the loop gain
                  LET looped == /\ <<"delay", "feedback">> \in g.edges
                                /\ <<"feedback", "delay">> \in g.edges
                      direct == inputs \ {"feedback"}
                      fed(m) == Sum([u \in direct |-> Out(g, u, m, ch, master)], direct)
                  IN  IF looped
                      THEN Sum([k \in 1..n |->
                                  Mul(Power(gainValue("feedback"), k - 1), fed(n - k))],
                               1..n)
                      ELSE fed(n - 1)
             ELSE Mul(gainValue(node), in(n))

\* new OfflineAudioContext(2, sampleRate * duration, sampleRate) (line 12), rendered
startRendering(g) ==
    LET length == ModelSampleRate * duration
        master == SubSeq([k \in 1..length |-> Out(g, "masterGain", k - 1, 0, <<>>)],
                         1, length)
        left == SubSeq([k \in 1..length |-> Out(g, "destination", k - 1, 0, master)],
                       1, length)
        right == SubSeq([k \in 1..length |-> Out(g, "destination", k - 1, 1, master)],
                        1, length)
    IN  [numberOfChannels |-> 2,
         length |-> length,
         sampleRate |-> ModelSampleRate,
         data |-> [ch \in 0..1 |-> [i \in 0..(length - 1) |->
                      IF ch = 0 THEN left[i + 1] ELSE right[i + 1]]]]

(***************************************************************************)
(* bufferToWav (lines 245-283): the DataView is a function from byte       *)
(* offsets to bytes; every multi-byte write is little-endian.              *)
(***************************************************************************)
charCodeAt(c) ==
    CASE c = "R" -> 82 [] c = "I" -> 73 [] c = "F" -> 70 [] c = "W" -> 87
      [] c = "A" -> 65 [] c = "V" -> 86 [] c = "E" -> 69 [] c = "f" -> 102
      [] c = "m" -> 109 [] c = "t" -> 116 [] c = " " -> 32 [] c = "d" -> 100
      [] c = "a" -> 97

setUint8(view, offset, v) == [view EXCEPT ![offset] = v % 256]
setUint16(view, offset, v) ==
    setUint8(setUint8(view, offset, v), offset + 1, v \div 256)
setUint32(view, offset, v) ==
    setUint16(setUint16(view, offset, v), offset + 2, v \div 65536)
\* ToInt16 of a number already truncated to an integer: modulo 2^16
setInt16(view, offset, v) == setUint16(view, offset, v % 65536)

RECURSIVE writeString(_, _, _)
writeString(view, offset, string) ==
    IF string = <<>> THEN view
    ELSE writeString(setUint8(view, offset, charCodeAt(Head(string))),
                     offset + 1, Tail(string))

getUint16(view, offset) == view[offset] + 256 * view[offset + 1]
getUint32(view, offset) == getUint16(view, offset) + 65536 * getUint16(view, offset + 2)
getInt16(view, offset) ==
    IF getUint16(view, offset) >= 32768
    THEN getUint16(view, offset) - 65536 ELSE getUint16(view, offset)

\* no clamping before the conversion
clamp_Missing(x) == x

\* Math.max(-1, Math.min(1, x)) on thousandths
clamp(x) == IF x > 1000 THEN 1000 ELSE IF x < -1000 THEN -1000 ELSE x
\* sample < 0 ? sample * 32768 : sample * 32767, truncated as setInt16 does
intSample(sample) ==
    IF sample < 0 THEN Trunc(sample * 32768, 1000) ELSE Trunc(sample * 32767, 1000)

\* the header with the RIFF chunk size taken as the size of the whole file
writeHeader_ChunkSizeOfFile(view, buffer) ==
    LET numOfChan == buffer.numberOfChannels
        v1 == writeString(view, 0, <<"R", "I", "F", "F">>)
        v2 == setUint32(v1, 4, 44 + buffer.length * numOfChan * 2)
        v3 == writeString(v2, 8, <<"W", "A", "V", "E">>)
        v4 == writeString(v3, 12, <<"f", "m", "t", " ">>)
        v5 == setUint32(v4, 16, 16)
        v6 == setUint16(v5, 20, 1)
        v7 == setUint16(v6, 22, numOfChan)
        v8 == setUint32(v7, 24, buffer.sampleRate)
        v9 == setUint32(v8, 28, buffer.sampleRate * 2 * numOfChan)
        v10 == setUint16(v9, 32, numOfChan * 2)
        v11 == setUint16(v10, 34, 16)
        v12 == writeString(v11, 36, <<"d", "a", "t", "a">>)
    IN  setUint32(v12, 40, buffer.length * numOfChan * 2)

writeHeader(view, buffer) ==
    LET numOfChan == buffer.numberOfChannels
        v1 == writeString(view, 0, <<"R", "I", "F", "F">>)
        v2 == setUint32(v1, 4, 36 + buffer.length * numOfChan * 2)
        v3 == writeString(v2, 8, <<"W", "A", "V", "E">>)
        v4 == writeString(v3, 12, <<"f", "m", "t", " ">>)
        v5 == setUint32(v4, 16, 16)
        v6 == setUint16(v5, 20, 1)
        v7 == setUint16(v6, 22, numOfChan)
        v8 == setUint32(v7, 24, buffer.sampleRate)
        v9 == setUint32(v8, 28, buffer.sampleRate * 2 * numOfChan)
        v10 == setUint16(v9, 32, numOfChan * 2)
        v11 == setUint16(v10, 34, 16)
        v12 == writeString(v11, 36, <<"d", "a", "t", "a">>)
    IN  setUint32(v12, 40, buffer.length * numOfChan * 2)

\* the two nested loops of lines 273-280, from frame i and channel on
RECURSIVE writeSamples(_, _, _, _, _)
writeSamples(out, buffer, i, channel, offset) ==
    IF i >= buffer.length THEN [view |-> out, offset |-> offset, rangeError |-> FALSE]
    ELSE IF channel >= buffer.numberOfChannels
         THEN writeSamples(out, buffer, i + 1, 0, offset)
         ELSE IF offset + 2 > Cardinality(DOMAIN out)
         THEN [view |-> out, offset |-> offset, rangeError |-> TRUE]
         ELSE writeSamples(
                  setInt16(out, offset, intSample(clamp(buffer.data[channel][i]))),
                  buffer, i, channel + 1, offset + 2)

bufferToWav(buffer) ==
    LET length == buffer.length * buffer.numberOfChannels * 2 + 44
        view == [o \in 0..(length - 1) |-> 0]
    IN  writeSamples(writeHeader(view, buffer), buffer, 0, 0, 44)

(***************************************************************************)
(* Inputs of the model.                                                    *)
(***************************************************************************)
ExampleDescription ==
    <<"A"," ","v","e","r","y"," ","s","l","o","w",","," ","d","r","a","g","g","i","n",
      "g"," ","6","0"," ","b","p","m"," ","t","e","m","p","o"," ","i","n"," ","a"," ",
      "d","i","s","s","o","n","a","n","t",","," ","a","t","o","n","a","l"," ","s","c",
      "a","l","e","."," ","F","e","a","t","u","r","e","s"," ","a"," ","s","i","m","p",
      "l","e",","," ","r","e","p","e","t","i","t","i","v","e"," ","m","e","l","o","d",
      "y"," ","f","r","o","m"," ","a"," ","d","e","t","u","n","e","d"," ","m","u","s",
      "i","c"," ","b","o","x"," ","w","i","t","h"," ","h","e","a","v","y"," ","r","e",
      "v","e","r","b"," ","a","n","d"," ","d","e","l","a","y","."," ","A","c","c","o",
      "m","p","a","n","i","e","d"," ","b","y"," ","l","o","w",","," ","r","u","m","b",
      "l","i","n","g"," ","b","a","s","s"," ","s","y","n","t","h"," ","d","r","o","n",
      "e","s"," ","a","n","d"," ","o","c","c","a","s","i","o","n","a","l",","," ","s",
      "p","a","r","s","e",","," ","d","i","s","c","o","r","d","a","n","t"," ","p","i",
      "a","n","o"," ","c","h","o","r","d","s","."," ","N","o"," ","d","r","u","m","s",
      " ","a","r","e"," ","p","r","e","s","e","n","t",","," ","c","r","e","a","t","i",
      "n","g"," ","a"," ","t","e","n","s","e",","," ","e","m","p","t","y"," ","a","t",
      "m","o","s","p","h","e","r","e",".">>

\* fragments a description is made of, in the order in which they appear in it
Vocabulary ==
    << <<"3","6","6"," ","b","p","m">>,
       <<"9">>,
       <<"6","0"," ","b","p","m">>,
       <<"0"," ","b","p","m">>,
       <<"\t","B","P","M">>,
       <<"s","l","o","w">>,
       <<"f","a","s","t">>,
       <<"u","p","b","e","a","t">>,
       <<"m","i","n","o","r">>,
       <<"d","i","s","s","o","n","a","n","t">>,
       <<"a","t","o","n","a","l">>,
       <<"p","e","n","t","a","t","o","n","i","c">>,
       <<"N","o"," ","d","r","u","m","s">>,
       <<"h","e","a","r","t","b","e","a","t">>,
       <<"p","e","r","c","u","s","s","i","o","n">>,
       <<"p","a","d">>,
       <<"s","t","r","i","n","g">>,
       <<"c","h","o","i","r">>,
       <<"p","i","a","n","o"," ","c","h","o","r","d","s">>,
       <<"b","a","s","s">>,
       <<"d","r","o","n","e">>,
       <<"r","u","m","b","l","e">>,
       <<"m","e","l","o","d","y">>,
       <<"p","i","a","n","o">>,
       <<"b","e","l","l">>,
       <<"m","u","s","i","c"," ","b","o","x">>,
       <<"g","l","o","c","k","e","n","s","p","i","e","l">>,
       <<"r","e","v","e","r","b">>,
       <<"d","e","l","a","y">>,
       <<"s","o","f","t">>,
       <<"s","y","n","t","h">>,
       <<"d","e","t","u","n","e","d">> >>

\* the descriptions made of at most n fragments, taken from the from'th on
RECURSIVE Phrases(_, _)
Phrases(n, from) ==
    IF n = 0 THEN {<<>>}
    ELSE {<<>>} \cup UNION {{Vocabulary[i] \o p : p \in Phrases(n - 1, i + 1)}
                              : i \in from..Len(Vocabulary)}
Descriptions == Phrases(MaxWords, 1) \cup {ExampleDescription}

\* descriptions rendered twice: drums, harmony and bass, and one more fragment
PairDescriptions ==
    {<<"b","a","s","s"," ","d","r","u","m"," ","p","a","d"," ">> \o Vocabulary[i]
        : i \in 1..Len(Vocabulary)}

\* buffers given to the encoder alone: each channel is a window of TestSignal
TestSignal == <<0, 500, 1000, 2500, -1, -500, -1000, -2500, 1, 999, -999>>
SampleRates == {8000, 44100, 48000}
Window(start, frames) ==
    [i \in 0..(frames - 1) |-> TestSignal[((start + i) % Len(TestSignal)) + 1]]
Buffers ==
    UNION {
      {[numberOfChannels |-> c, length |-> f, sampleRate |-> r,
        data |-> [ch \in 0..(c - 1) |-> Window(starts[ch], f)]]
         : starts \in [0..(c - 1) -> 0..(Len(TestSignal) - 1)], r \in SampleRates}
      : <<c, f>> \in (1..MaxChannels) \X (1..MaxFrames)}

\* buffers whose channel count is around the largest value the 16-bit fields
\* numChannels (offset 22) and blockAlign (offset 32) can hold; they have no frames
WideChannels ==
    UNION {(limit - MaxExcess)..(limit + MaxExcess + 1) : limit \in {32767, 65535}}
WideSampleRates == {8000, 11025, 16000}
WideBuffers ==
    {[numberOfChannels |-> c, length |-> 0, sampleRate |-> r,
      data |-> [ch \in 0..(c - 1) |-> <<>>]]
        : c \in WideChannels, r \in WideSampleRates}

(***************************************************************************)
(* State.                                                                  *)
(***************************************************************************)
VARIABLES
    description,   \* the text given to generateAudioPreview
    previews,      \* per requested preview: the promise, the graph, the output
    inputBuffer,        \* an AudioBuffer given to bufferToWav
    encoded,      \* what bufferToWav returned for it
    app          \* the state of the App component, its player and its running call

vars == <<description, previews, inputBuffer, encoded, app>>

NoBuffer == [numberOfChannels |-> 0, length |-> 0, sampleRate |-> 0, data |-> <<>>]
NoFile == [view |-> <<>>, offset |-> 0, rangeError |-> FALSE]

Idle ==
    [status |-> "idle", seed |-> 0, lowerDesc |-> <<>>, bpm |-> 0, scale |-> <<>>,
     chordProgression |-> <<>>, layers |-> {}, edges |-> {}, events |-> {},
     impulse |-> <<>>, renderedBuffer |-> NoBuffer, wav |-> NoFile]

\* the values of the App component's state: null for error, for playingTrackId
\* and for a missing previewUrl or player.src
NoError == "null"
NoTrack == <<>>
NoUrl == 0
FillInBoth == "Please fill in both the topic and story fields."
Failed == "Failed to generate music recommendations. Please check your API key and try again."
Generating == "Generating your vibes..."
Synthesizing == "Synthesizing audio previews..."

\* the component after its first render and its effects: the useState initial
\* values, the Audio element of the effect, no handleGenerate call running.
\* tasks are the queued events of the audio element, revoked the object URLs
\* given to URL.revokeObjectURL, now the clock of Date.now(), blobs the number of
\* object URLs created, call the promises of the latest handleGenerate call.
initialApp ==
    [topic |-> "", story |-> "", recommendations |-> <<>>, isLoading |-> FALSE,
     loadingMessage |-> "", error |-> NoError, playingTrackId |-> NoTrack,
     hasGenerated |-> FALSE,
     player |-> [src |-> NoUrl, paused |-> TRUE], tasks |-> <<>>,
     revoked |-> {}, now |-> 0, blobs |-> 0,
     call |-> [phase |-> "none", tracks |-> <<>>]]

\* the synchronous body of generateAudioPreview (lines 9-235): everything up to
\* context.startRendering()
generateAudioPreview(s) ==
    /\ previews[s].status = "idle"
    /\ \A t \in DOMAIN previews : t < s => previews[t].status # "idle"
    /\ LET lowerDesc == toLowerCase(description)
           b == bpm(lowerDesc)
       IN  \E seed \in Seeds :
             LET built == buildAudio(lowerDesc, b, seed)
             IN  previews' = [previews EXCEPT ![s] =
                     [status |-> IF built.threw THEN "rejected" ELSE "rendering",
                      seed |-> seed,
                      lowerDesc |-> lowerDesc,
                      bpm |-> b,
                      scale |-> scale(lowerDesc),
                      chordProgression |-> chordProgression(lowerDesc),
                      layers |-> built.layers,
                      edges |-> built.edges,
                      events |-> built.events,
                      impulse |-> impulse(seed),
                      renderedBuffer |-> NoBuffer,
                      wav |-> NoFile]]
    /\ UNCHANGED <<description, inputBuffer, encoded, app>>

\* the callback of startRendering().then (lines 236-240)
onRendered(s) ==
    /\ previews[s].status = "rendering"
    /\ \A t \in DOMAIN previews : previews[t].status # "idle"
    /\ LET renderedBuffer == startRendering(previews[s])
       IN  previews' = [previews EXCEPT ![s] =
               [@ EXCEPT !.status = "resolved",
                         !.renderedBuffer = renderedBuffer,
                         !.wav = bufferToWav(renderedBuffer)]]
    /\ UNCHANGED <<description, inputBuffer, encoded, app>>

\* a call of bufferToWav on an arbitrary inputBuffer
encode ==
    /\ encoded = NoFile
    /\ inputBuffer # NoBuffer
    /\ encoded' = bufferToWav(inputBuffer)
    /\ UNCHANGED <<description, previews, inputBuffer, app>>

Init ==
    /\ description \in Descriptions
    /\ previews = [s \in 1..1 |-> Idle]
    /\ inputBuffer = NoBuffer
    /\ encoded = NoFile
    /\ app = initialApp

Next == \E s \in DOMAIN previews : generateAudioPreview(s) \/ onRendered(s)

Spec == Init /\ [][Next]_vars

\* two previews of one description, as two tracks of one batch
InitPair ==
    /\ description \in PairDescriptions
    /\ previews = [s \in 1..2 |-> Idle]
    /\ inputBuffer = NoBuffer
    /\ encoded = NoFile
    /\ app = initialApp

SpecPair == InitPair /\ [][Next]_vars

\* the encoder on its own
InitWav ==
    /\ description = <<>>
    /\ previews = [s \in 1..1 |-> Idle]
    /\ inputBuffer \in Buffers
    /\ encoded = NoFile
    /\ app = initialApp

NextWav == encode

SpecWav == InitWav /\ [][NextWav]_vars

\* the encoder on buffers with very many channels
InitWide ==
    /\ description = <<>>
    /\ previews = [s \in 1..1 |-> Idle]
    /\ inputBuffer \in WideBuffers
    /\ encoded = NoFile
    /\ app = initialApp

SpecWide == InitWide /\ [][NextWav]_vars

(***************************************************************************)
(* The App component: handleGenerate, togglePlay and the audio element.    *)
(***************************************************************************)
\* at most MaxTracks tracks in an answer, at most MaxBatches answered requests
MaxTracks == 2
MaxBatches == 2

\* what the form fields can hold, and the descriptions of the tracks that
\* generateMusicRecommendations can answer with
FieldValues == {"", "Travel"}
TrackDescriptions ==
    {<<"s","o","f","t"," ","p","a","d">>, <<"0"," ","b","p","m"," ","p","a","d">>}
\* the ids `${Date.now()}-${index}` of line 95
TrackIds == (1..MaxBatches) \X (0..(MaxTracks - 1))
RECURSIVE Batches(_)
Batches(n) ==
    IF n = 0 THEN {<<>>}
    ELSE Batches(n - 1) \cup
         {Append(r, d) : r \in {x \in Batches(n - 1) : Len(x) = n - 1}, d \in TrackDescriptions}

setTopic(value) ==
    /\ app.topic # value
    /\ app' = [app EXCEPT !.topic = value]
    /\ UNCHANGED <<description, previews, inputBuffer, encoded>>

setStory(value) ==
    /\ app.story # value
    /\ app' = [app EXCEPT !.story = value]
    /\ UNCHANGED <<description, previews, inputBuffer, encoded>>

\* URL.revokeObjectURL on every previewUrl of the rendered list (lines 85-87)
revokeAll(a) ==
    [a EXCEPT !.revoked =
        @ \cup {a.recommendations[i].previewUrl :
                  i \in {j \in 1..Len(a.recommendations) : a.recommendations[j].previewUrl # NoUrl}}]

\* the catch block (lines 107-109)
catch(a) == [a EXCEPT !.error = Failed]

\* the finally block (lines 110-113)
finally_KeepsMessage(a) == [a EXCEPT !.isLoading = FALSE]
finally(a) == [a EXCEPT !.isLoading = FALSE, !.loadingMessage = ""]

\* whether the promise of generateAudioPreview(d) is rejected: its executor runs
\* at the call and throws exactly when the build throws
rejects(d) ==
    LET lowerDesc == toLowerCase(d)
    IN  \E seed \in Seeds : buildAudio(lowerDesc, bpm(lowerDesc), seed).threw
Rejected == {d \in TrackDescriptions : rejects(d)}

\* handleGenerate up to its first await (lines 74-92). The submit button and the
\* Refresh button are disabled while isLoading, and Refresh is rendered only
\* with a non-empty list.
handleGenerate(isRefresh) ==
    /\ ~app.isLoading
    /\ isRefresh => app.recommendations # <<>>
    /\ IF app.topic = "" \/ app.story = ""
       THEN app' = [app EXCEPT !.error = FillInBoth]
       ELSE /\ app.now < MaxBatches
            /\ app' = [revokeAll(app) EXCEPT
                          !.isLoading = TRUE,
                          !.error = NoError,
                          !.hasGenerated = IF isRefresh THEN @ ELSE TRUE,
                          !.recommendations = <<>>,
                          !.loadingMessage = Generating,
                          !.call = [phase |-> "request", tracks |-> <<>>]]
    /\ UNCHANGED <<description, previews, inputBuffer, encoded>>

\* generateMusicRecommendations resolves with results (lines 92-101): the tracks
\* get their ids and generateAudioPreview is called for each of them
requestResolved(results) ==
    /\ app.call.phase = "request"
    /\ LET now == app.now + 1
           tracks == [i \in 1..Len(results) |->
                        [id |-> <<now, i - 1>>,
                         musicDescription |-> results[i],
                         status |-> IF results[i] \in Rejected THEN "rejected" ELSE "rendering",
                         previewUrl |-> NoUrl]]
       IN  app' = [app EXCEPT !.now = now,
                              !.loadingMessage = Synthesizing,
                              !.call = [phase |-> "synth", tracks |-> tracks]]
    /\ UNCHANGED <<description, previews, inputBuffer, encoded>>

\* generateMusicRecommendations rejects (lines 92, 107-113)
requestRejected ==
    /\ app.call.phase = "request"
    /\ app' = [finally(catch(app)) EXCEPT !.call.phase = "none"]
    /\ UNCHANGED <<description, previews, inputBuffer, encoded>>

\* the preview of track i is rendered and its object URL created (line 101 and
\* audioGenerator.ts lines 236-240); a rejected preview of the batch settles
\* Promise.all before any rendering ends
previewRendered(i) ==
    /\ app.call.phase = "synth"
    /\ i \in 1..Len(app.call.tracks)
    /\ app.call.tracks[i].status = "rendering"
    /\ \A j \in 1..Len(app.call.tracks) : app.call.tracks[j].status # "rejected"
    /\ app' = [app EXCEPT !.blobs = @ + 1,
                          !.call.tracks[i].status = "resolved",
                          !.call.tracks[i].previewUrl = app.blobs + 1]
    /\ UNCHANGED <<description, previews, inputBuffer, encoded>>

\* Promise.all settles (lines 99-113): rejected with the first rejected preview,
\* fulfilled when every preview is
batchSettled ==
    /\ app.call.phase = "synth"
    /\ LET tracks == app.call.tracks
       IN  \/ /\ \E i \in 1..Len(tracks) : tracks[i].status = "rejected"
              /\ app' = [finally(catch(app)) EXCEPT !.call.phase = "none"]
           \/ /\ \A i \in 1..Len(tracks) : tracks[i].status = "resolved"
              /\ app' = [finally([app EXCEPT !.recommendations =
                                    [i \in 1..Len(tracks) |->
                                        [id |-> tracks[i].id,
                                         musicDescription |-> tracks[i].musicDescription,
                                         previewUrl |-> tracks[i].previewUrl]]])
                            EXCEPT !.call.phase = "none"]
    /\ UNCHANGED <<description, previews, inputBuffer, encoded>>

\* HTMLMediaElement.pause(): a playing element becomes paused and queues its
\* 'pause' event
pause(a) ==
    IF a.player.paused THEN a
    ELSE [a EXCEPT !.player.paused = TRUE, !.tasks = Append(@, "pause")]

\* player.src = url; player.play(): loading a new resource discards the queued
\* events of the element
playSrc(a, url) == [a EXCEPT !.player = [src |-> url, paused |-> FALSE], !.tasks = <<>>]

\* togglePlay (lines 128-144); the card of a track is rendered while the track is
\* in the list and isLoading is false
togglePlay(id) ==
    /\ ~app.isLoading
    /\ \E i \in 1..Len(app.recommendations) : app.recommendations[i].id = id
    /\ LET found == {i \in 1..Len(app.recommendations) : app.recommendations[i].id = id}
       IN  IF found = {} \/ (\A i \in found : app.recommendations[i].previewUrl = NoUrl)
           THEN UNCHANGED app
           ELSE IF app.playingTrackId = id
           THEN app' = [pause(app) EXCEPT !.playingTrackId = NoTrack]
           ELSE LET track == app.recommendations[CHOOSE i \in found : \A j \in found : i <= j]
                    stopped == IF app.playingTrackId # NoTrack THEN pause(app) ELSE app
                IN  app' = [playSrc(stopped, track.previewUrl) EXCEPT !.playingTrackId = id]
    /\ UNCHANGED <<description, previews, inputBuffer, encoded>>

\* handleAudioEnd (line 42) on the queued 'pause' event
pauseEvent ==
    /\ app.tasks # <<>>
    /\ app' = [app EXCEPT !.tasks = Tail(@), !.playingTrackId = NoTrack]
    /\ UNCHANGED <<description, previews, inputBuffer, encoded>>

\* the playing track reaches its end: the element pauses and fires 'pause' and
\* 'ended', both handled by handleAudioEnd (lines 42-44)
endedEvent ==
    /\ ~app.player.paused
    /\ app' = [app EXCEPT !.player.paused = TRUE, !.playingTrackId = NoTrack]
    /\ UNCHANGED <<description, previews, inputBuffer, encoded>>

InitApp ==
    /\ description = <<>>
    /\ previews = [s \in 1..1 |-> Idle]
    /\ inputBuffer = NoBuffer
    /\ encoded = NoFile
    /\ app = initialApp

NextApp ==
    \/ \E value \in FieldValues : setTopic(value) \/ setStory(value)
    \/ \E isRefresh \in BOOLEAN : handleGenerate(isRefresh)
    \/ \E results \in Batches(MaxTracks) : requestResolved(results)
    \/ requestRejected
    \/ \E i \in 1..MaxTracks : previewRendered(i)
    \/ batchSettled
    \/ \E id \in TrackIds : togglePlay(id)
    \/ pauseEvent
    \/ endedEvent

SpecApp == InitApp /\ [][NextApp]_vars

\* the request is answered or fails, every rendering ends, and the event loop
\* runs the callbacks of every settled promise
Settles ==
    /\ WF_vars(requestRejected \/ \E results \in Batches(MaxTracks) : requestResolved(results))
    /\ WF_vars(\E i \in 1..MaxTracks : previewRendered(i))
    /\ WF_vars(batchSettled)

SpecAppLive == InitApp /\ [][NextApp]_vars /\ Settles

(***************************************************************************)
(* Properties of the derived parameters.                                   *)
(***************************************************************************)
Preview == previews[1]
Started == Preview.status # "idle"
Text == toLowerCase(description)

\* text[i..j] is a whole run of digits followed, after optional white space, by "bpm"
IsBpmToken(text, i, j) ==
    /\ i <= j
    /\ IsDigit(text[i]) /\ IsDigit(text[j])
    /\ (i = 1 \/ ~IsDigit(text[i - 1]))
    /\ \E k \in (j + 1)..Len(text) : MatchesAt(text, i, j, k)
BpmTokens(text) ==
    {t \in (1..Len(text)) \X (1..Len(text)) : IsBpmToken(text, t[1], t[2])}

\* the number a run of digits denotes
DigitOf(c) == CHOOSE d \in 0..9 : Digits[d + 1] = c
RECURSIVE PowerOfTen(_)
PowerOfTen(n) == IF n = 0 THEN 1 ELSE 10 * PowerOfTen(n - 1)
RECURSIVE Decimal(_, _, _)
Decimal(text, i, j) ==
    IF i > j THEN 0
    ELSE DigitOf(text[i]) * PowerOfTen(j - i) + Decimal(text, i + 1, j)

MajorScale == <<0, 2, 4, 5, 7, 9, 11>>
MinorScale == <<0, 2, 3, 5, 7, 8, 10>>
DissonantScale == <<0, 1, 4, 5, 8, 9>>
PentatonicScale == <<0, 2, 4, 7, 9>>
MinorProgression == << <<0, 3, 7>>, <<8, 0, 3>>, <<3, 7, 10>>, <<10, 2, 5>> >>
MajorProgression == << <<0, 4, 7>>, <<7, 11, 2>>, <<9, 0, 4>>, <<5, 9, 0>> >>

\* C1 as stated: every "<N> bpm" token of the text gives the tempo, N
C1_EveryTokenIsTheTempo ==
    Started =>
        LET text == Text
        IN  \A t \in BpmTokens(text) : Preview.bpm = Decimal(text, t[1], t[2])

\* C1 (amended): when the text has a "<N> bpm" token, the tempo is the N of the
\* leftmost one, whether or not the text contains "slow", "fast" or "upbeat"
C1_FirstTokenIsTheTempo ==
    Started =>
        LET text == Text
            tokens == BpmTokens(text)
            first == CHOOSE t \in tokens : \A u \in tokens : t[1] <= u[1]
        IN  tokens # {} => Preview.bpm = Decimal(text, first[1], first[2])

C1_Witness ==
    /\ Started
    /\ BpmTokens(Text) # {}
    /\ includes(Text, KW_slow)
    /\ Preview.bpm = 60

\* C2 as stated: without a token the tempo is 80 for "slow", else 140 for "fast"
\* or "upbeat", else 120
C2_SlowBeforeFast ==
    LET text == Text
    IN  (Started /\ BpmTokens(text) = {}) =>
            Preview.bpm = IF includes(text, KW_slow) THEN 80
                          ELSE IF includes(text, KW_fast) \/ includes(text, KW_upbeat)
                               THEN 140 ELSE 120

\* C2 (amended): without a token the tempo is 140 for "fast" or "upbeat", else 80
\* for "slow", else 120
C2_FastBeforeSlow ==
    LET text == Text
    IN  (Started /\ BpmTokens(text) = {}) =>
            Preview.bpm = IF includes(text, KW_fast) \/ includes(text, KW_upbeat) THEN 140
                          ELSE IF includes(text, KW_slow) THEN 80 ELSE 120

C2_Witness ==
    /\ Started
    /\ BpmTokens(Text) = {}
    /\ includes(Text, KW_slow) /\ includes(Text, KW_fast)
    /\ Preview.bpm = 140

\* C3: the scale is one of four fixed sets chosen by the chain major, minor,
\* dissonant/atonal, pentatonic, each later rule overriding; so it is non-empty,
\* strictly increasing, within 0..11 and starts at 0
C3_ScaleChain ==
    Started =>
        /\ LET text == Text
           IN  Preview.scale =
                   IF includes(text, KW_pentatonic) THEN PentatonicScale
                   ELSE IF includes(text, KW_dissonant) \/ includes(text, KW_atonal)
                        THEN DissonantScale
                   ELSE IF includes(text, KW_minor) THEN MinorScale
                   ELSE MajorScale
        /\ Len(Preview.scale) > 0
        /\ Preview.scale[1] = 0
        /\ \A k \in 1..Len(Preview.scale) : Preview.scale[k] \in 0..11
        /\ \A k \in 1..(Len(Preview.scale) - 1) : Preview.scale[k] < Preview.scale[k + 1]

C3_Witness ==
    /\ Started
    /\ includes(Text, KW_minor) /\ includes(Text, KW_dissonant)
    /\ Preview.scale = DissonantScale

\* C4: the progression has 4 chords of 3 offsets; it is the minor one exactly when
\* the text contains "minor", whatever scale was chosen
C4_Progression ==
    Started =>
        /\ Len(Preview.chordProgression) = 4
        /\ \A k \in 1..4 : Len(Preview.chordProgression[k]) = 3
        /\ includes(Text, KW_minor) <=> Preview.chordProgression = MinorProgression
        /\ ~includes(Text, KW_minor) => Preview.chordProgression = MajorProgression

C4_Witness ==
    /\ Started
    /\ includes(Text, KW_minor) /\ includes(Text, KW_pentatonic)
    /\ Preview.scale = PentatonicScale
    /\ Preview.chordProgression = MinorProgression

(***************************************************************************)
(* Properties of the layers, the graph and the output.                     *)
(***************************************************************************)
DrumWords(text) ==
    \/ includes(text, KW_drum) \/ includes(text, KW_beat)
    \/ includes(text, KW_percussion) \/ includes(text, KW_heartbeat)
HarmonyWords(text) ==
    \/ includes(text, KW_pad) \/ includes(text, KW_string)
    \/ includes(text, KW_choir) \/ includes(text, KW_chord)
BassWords(text) ==
    \/ includes(text, KW_bass) \/ includes(text, KW_drone) \/ includes(text, KW_rumble)
MelodyWords(text) ==
    \/ includes(text, KW_melody) \/ includes(text, KW_piano) \/ includes(text, KW_bell)
    \/ includes(text, KW_music_box) \/ includes(text, KW_glockenspiel)

ReverbEnabled(p) ==
    {<<"masterGain", "reverb">>, <<"reverb", "reverbGain">>,
     <<"reverbGain", "destination">>} \subseteq p.edges
DelayEnabled(p) ==
    {<<"masterGain", "delay">>, <<"delay", "delayGain">>,
     <<"delayGain", "destination">>} \subseteq p.edges

\* the nodes from which a signal can flow into node
RECURSIVE UpstreamFrom(_, _)
UpstreamFrom(edges, found) ==
    LET more == {e[1] : e \in {d \in edges : d[2] \in found}} \ found
    IN  IF more = {} THEN found ELSE UpstreamFrom(edges, found \cup more)
Upstream(edges, node) == UpstreamFrom(edges, {node}) \ {node}

\* the decoded PCM sample of frame i and channel c of a file of ch channels
PcmSample(file, ch, i, c) == getInt16(file.view, 44 + 2 * (i * ch + c))

\* C5: each layer is synthesized exactly when the text contains one of its keywords
C5_LayersFollowKeywords ==
    Started =>
        /\ "drums" \in Preview.layers <=> DrumWords(Text)
        /\ "harmony" \in Preview.layers <=> HarmonyWords(Text)
        /\ "bass" \in Preview.layers <=> BassWords(Text)
        /\ "melody" \in Preview.layers <=> MelodyWords(Text)

\* C5 on the renders whose build did not throw: the layers follow the keywords,
\* and "no drums" and "upbeat" both enable the drums
C5_LayersFollowKeywordsUnlessThrown ==
    (Started /\ Preview.status # "rejected") =>
        /\ "drums" \in Preview.layers <=> DrumWords(Text)
        /\ "harmony" \in Preview.layers <=> HarmonyWords(Text)
        /\ "bass" \in Preview.layers <=> BassWords(Text)
        /\ "melody" \in Preview.layers <=> MelodyWords(Text)
        /\ includes(Text, <<"n","o"," ","d","r","u","m","s">>) => "drums" \in Preview.layers
        /\ includes(Text, KW_upbeat) => "drums" \in Preview.layers

\* C6 as stated: the example of the generator prompt gives tempo 60, no drums,
\* reverb, delay, the dissonant scale and the melody, bass and harmony layers
C6_ExampleWithoutDrums ==
    (Started /\ description = ExampleDescription) =>
        /\ Preview.bpm = 60
        /\ "drums" \notin Preview.layers
        /\ ReverbEnabled(Preview) /\ DelayEnabled(Preview)
        /\ Preview.scale = DissonantScale
        /\ {"melody", "bass", "harmony"} \subseteq Preview.layers

\* C6 (amended): the same, but the drums are enabled, by the "drum" of "No drums"
C6_ExampleWithDrums ==
    (Started /\ description = ExampleDescription) =>
        /\ Preview.bpm = 60
        /\ "drums" \in Preview.layers
        /\ ReverbEnabled(Preview) /\ DelayEnabled(Preview)
        /\ Preview.scale = DissonantScale
        /\ {"melody", "bass", "harmony"} \subseteq Preview.layers

C6_Witness ==
    /\ description = ExampleDescription
    /\ Preview.status = "resolved"
    /\ \E e \in Preview.events : e.node = "kickOsc"

\* C7: two renders of one description with drums, harmony and bass and without
\* melody give the same output
C7_RendersIdentical ==
    (/\ \A s \in DOMAIN previews : previews[s].status = "resolved"
     /\ {"drums", "harmony", "bass"} \subseteq Preview.layers
     /\ "melody" \notin Preview.layers)
    => \A s \in DOMAIN previews :
          /\ previews[s].renderedBuffer = Preview.renderedBuffer
          /\ previews[s].wav = Preview.wav

C9_Samples ==
    encoded # NoFile =>
        LET ch == inputBuffer.numberOfChannels
            Places == (0..(inputBuffer.length - 1)) \X (0..(ch - 1))
            x(p) == inputBuffer.data[p[2]][p[1]]
            y(p) == PcmSample(encoded, ch, p[1], p[2])
        IN  /\ \A p \in Places :
                  /\ x(p) >= 1000 => y(p) = 32767
                  /\ x(p) <= -1000 => y(p) = -32768
                  /\ x(p) = 0 => y(p) = 0
                  /\ (x(p) >= 0 /\ x(p) <= 1000) =>
                        /\ y(p) * 1000 <= x(p) * 32767
                        /\ x(p) * 32767 < (y(p) + 1) * 1000
                  /\ (x(p) < 0 /\ x(p) >= -1000) =>
                        /\ (y(p) - 1) * 1000 < x(p) * 32768
                        /\ x(p) * 32768 <= y(p) * 1000
            /\ \A p, q \in Places : x(p) <= x(q) => y(p) <= y(q)

C9_Witness ==
    /\ encoded # NoFile
    /\ inputBuffer.numberOfChannels = 2 /\ inputBuffer.length = 2
    /\ inputBuffer.data[0][0] > 1000 /\ PcmSample(encoded, 2, 0, 0) = 32767
    /\ inputBuffer.data[1][0] < -1000 /\ PcmSample(encoded, 2, 0, 1) = -32768
    /\ inputBuffer.data[1][1] \in 1..999 /\ PcmSample(encoded, 2, 1, 1) \in 0..32766

\* C10: a description without a layer keyword builds no layer, connects no source
\* to the master bus and encodes to silence, with or without reverb and delay
C10_SilentWithoutLayers ==
    (/\ Started
     /\ LET text == Text
        IN  ~DrumWords(text) /\ ~HarmonyWords(text) /\ ~BassWords(text) /\ ~MelodyWords(text))
    => /\ Preview.layers = {}
       /\ Preview.events = {}
       /\ Upstream(Preview.edges, "masterGain") = {}
       /\ Upstream(Preview.edges, "destination") \cap SourceNodes = {}
       /\ Preview.status # "rejected"
       /\ Preview.status = "resolved" =>
             \A i \in 0..(Preview.renderedBuffer.length - 1) : \A c \in 0..1 :
                 /\ Preview.renderedBuffer.data[c][i] = 0
                 /\ PcmSample(Preview.wav, 2, i, c) = 0

C10_Witness ==
    /\ Preview.status = "resolved"
    /\ ~DrumWords(Text) /\ ~HarmonyWords(Text) /\ ~BassWords(Text) /\ ~MelodyWords(Text)
    /\ ReverbEnabled(Preview) /\ DelayEnabled(Preview)
    /\ Preview.renderedBuffer.length = ModelSampleRate * duration
    /\ PcmSample(Preview.wav, 2, 0, 0) = 0

(***************************************************************************)
(* Properties of the encoder on buffers that do not fit the header.        *)
(***************************************************************************)
\* C11: when the channel count or the block alignment does not fit its 16-bit
\* header field, bufferToWav signals an error instead of returning a file
C11_OverflowIsSignalled ==
    (/\ encoded # NoFile
     /\ \/ inputBuffer.numberOfChannels > 65535
        \/ inputBuffer.numberOfChannels * 2 > 65535)
    => encoded.rangeError

\* what the code does instead: the field holds the value modulo 2^16
C11_FieldsWrapSilently ==
    encoded # NoFile =>
        /\ ~encoded.rangeError
        /\ getUint16(encoded.view, 22) = inputBuffer.numberOfChannels % 65536
        /\ getUint16(encoded.view, 32) = (inputBuffer.numberOfChannels * 2) % 65536

(***************************************************************************)
(* Properties of the scheduled events.                                     *)
(***************************************************************************)
Zero == <<0, 1>>
\* a time in lowest terms, and the comparison of two times in lowest terms
RECURSIVE GCD(_, _)
GCD(a, b) == IF b = 0 THEN a ELSE GCD(b, a % b)
Reduced(t) ==
    LET g == GCD(t[1], t[2])
    IN  IF g = 0 THEN t ELSE <<t[1] \div g, t[2] \div g>>
Before(t, u) == Less(Reduced(t), Reduced(u))
SameTime(t, u) == Reduced(t) = Reduced(u)
\* ceil(num / den) for num >= 0 and den > 0
Ceil(num, den) == (num + den - 1) \div den
DrumEvents(p) == {e \in p.events : e.node \in {"kickOsc", "noise"}}
HarmonyEvents(p) == {e \in p.events : e.node = "harmony.osc"}
BassEvents(p) == {e \in p.events : e.node = "bass.osc"}
MelodyEvents(p) == {e \in p.events : e.node = "melody.osc"}
WellTimed(p) ==
    /\ p.status # "rejected"
    /\ \A e \in p.events :
          /\ IsFinite(e.start) /\ IsFinite(e.stop)
          /\ ~Before(e.start, Zero)
          /\ Before(e.start, e.stop)
          /\ e.type # "buffer" => e.freq[1] > 0
LoopCounts(p) ==
    /\ "drums" \in p.layers =>
          {e.index[1] : e \in DrumEvents(p)} = 0..(Ceil(duration * p.bpm, 60) - 1)
    /\ "melody" \in p.layers =>
          \A e \in MelodyEvents(p) : e.index[1] \in 0..(Ceil(2 * duration * p.bpm, 60) - 1)

\* C12: the tempo is positive, the beat duration finite and positive, the build
\* does not fail, every event has a finite start >= 0, a later stop and a positive
\* frequency, and the drum and melody loops make ceil(10 / beatDuration) and
\* ceil(20 / beatDuration) iterations
C12_NeverFails ==
    Started =>
        /\ Preview.bpm > 0
        /\ IsFinite(beatDuration(Preview.bpm))
        /\ Less(Zero, beatDuration(Preview.bpm))
        /\ WellTimed(Preview)
        /\ LoopCounts(Preview)

\* C12 on the descriptions whose tempo is positive: the build does not fail and
\* the events are well timed
C12_WellTimedAtPositiveTempo ==
    (Started /\ Preview.bpm > 0) => WellTimed(Preview)

(***************************************************************************)
(* Properties of the harmony and bass layers.                              *)
(***************************************************************************)
\* the oscillators of note n of chord i
NoteOscillators(p, i, n) ==
    {e \in HarmonyEvents(p) : e.index[1] = i /\ e.index[2] = n}
ChordNotes == (0..3) \X (1..3)

\* C13 as stated: a note has 1 oscillator without detune when the text has no
\* "string" and 3 oscillators when it has; 12 or 36 oscillators in all
C13_OneOrThree ==
    (Started /\ "harmony" \in Preview.layers) =>
        IF includes(Text, KW_string)
        THEN /\ \A c \in ChordNotes : Cardinality(NoteOscillators(Preview, c[1], c[2])) = 3
             /\ Cardinality(HarmonyEvents(Preview)) = 36
        ELSE /\ \A c \in ChordNotes :
                   /\ Cardinality(NoteOscillators(Preview, c[1], c[2])) = 1
                   /\ \A e \in NoteOscillators(Preview, c[1], c[2]) : e.detune = 0
             /\ Cardinality(HarmonyEvents(Preview)) = 12

\* C13 (amended): a note has 3 oscillators without detune when the text has no
\* "string" and 2 oscillators, detuned by -5 and 5, when it has; 36 or 24
\* oscillators in all; at tempo 0 the builder throws and starts none
C13_ThreeOrTwo ==
    (Started /\ "harmony" \in Preview.layers) =>
        IF Preview.bpm = 0
        THEN HarmonyEvents(Preview) = {} /\ Preview.status = "rejected"
        ELSE IF includes(Text, KW_string)
        THEN /\ \A c \in ChordNotes :
                   /\ Cardinality(NoteOscillators(Preview, c[1], c[2])) = 2
                   /\ {e.detune : e \in NoteOscillators(Preview, c[1], c[2])} = {-5, 5}
             /\ Cardinality(HarmonyEvents(Preview)) = 24
        ELSE /\ \A c \in ChordNotes :
                   /\ Cardinality(NoteOscillators(Preview, c[1], c[2])) = 3
                   /\ {e.detune : e \in NoteOscillators(Preview, c[1], c[2])} = {0}
             /\ Cardinality(HarmonyEvents(Preview)) = 36

C13_Witness ==
    /\ Started
    /\ "harmony" \in Preview.layers
    /\ includes(Text, KW_string) /\ includes(Text, KW_pad)
    /\ Cardinality(HarmonyEvents(Preview)) = 24

(***************************************************************************)
(* Properties of the drum layer.                                           *)
(***************************************************************************)
End == <<duration, 1>>
\* the beat indices i with i * beatDuration < duration
Beats(b) == {i \in 0..((duration * b) \div 60) : i * 60 < duration * b}
HitsAt(p, i) == {e \in DrumEvents(p) : e.index[1] = i}
DrumPattern(p) ==
    LET heartbeat == includes(p.lowerDesc, KW_heartbeat)
    IN  /\ \A i \in Beats(p.bpm) :
              /\ Cardinality(HitsAt(p, i)) = 1
              /\ \A e \in HitsAt(p, i) :
                    /\ SameTime(e.start, Times(i, beatDuration(p.bpm)))
                    /\ e.node = IF heartbeat \/ i % 2 = 0 THEN "kickOsc" ELSE "noise"
        /\ \A e \in DrumEvents(p) :
              /\ e.index[1] \in Beats(p.bpm)
              /\ Before(e.start, End)
        /\ heartbeat => \A e \in DrumEvents(p) : e.node = "kickOsc"

\* C14: with the drums enabled every beat that starts before 10 s has exactly one
\* hit, at its start: kick on even and snare on odd beats, or a kick on every beat
\* and no snare with "heartbeat"; no hit starts at or after 10 s
C14_DrumPattern ==
    (Started /\ "drums" \in Preview.layers) => DrumPattern(Preview)

\* C14 at the tempos whose loop bound is computed exactly
C14_DrumPatternAtExactTempos ==
    (Started /\ "drums" \in Preview.layers /\ <<Preview.bpm, 1>> \notin RoundsUp)
    => DrumPattern(Preview)

(***************************************************************************)
(* Properties of the chords in time.                                       *)
(***************************************************************************)
ChordStart(b, k) == Times(4 * k, beatDuration(b))
ChordOscillators(p, k) == {e \in HarmonyEvents(p) : e.index[1] = k}
BassOscillators(p, k) == {e \in BassEvents(p) : e.index[1] = k}
\* e sounds exactly during the span of chord k
SpansChord(p, e, k) ==
    /\ IsFinite(e.start) /\ IsFinite(e.stop)
    /\ SameTime(e.start, ChordStart(p.bpm, k))
    /\ SameTime(e.stop, ChordStart(p.bpm, k + 1))
ChordSpans(p) ==
    /\ "harmony" \in p.layers =>
          \A k \in 0..3 :
              /\ ChordOscillators(p, k) # {}
              /\ \A e \in ChordOscillators(p, k) : SpansChord(p, e, k)
              /\ {e.freq[2] : e \in ChordOscillators(p, k)}
                     = {p.chordProgression[k + 1][n] + p.scale[1] : n \in 1..3}
    /\ "bass" \in p.layers =>
          \A k \in 0..3 :
              /\ Cardinality(BassOscillators(p, k)) = 1
              /\ \A e \in BassOscillators(p, k) :
                    /\ SpansChord(p, e, k)
                    \* the root of the chord, an octave below the harmony's pitch
                    /\ e.freq[2] = p.chordProgression[k + 1][1] + p.scale[1]
                    /\ e.freq[1] * 2 = baseFreq
                    /\ \A h \in ChordOscillators(p, k) : h.freq[1] = e.freq[1] * 2
    /\ \A e \in HarmonyEvents(p) \cup BassEvents(p) : e.index[1] \in 0..3

\* C15: chord k of the harmony and of the bass sounds exactly from 4k to 4(k+1)
\* beat durations, all oscillators of a chord starting and stopping together; the
\* bass plays the first offset of the chord one octave below the harmony's pitch
C15_ChordSpans ==
    Started => ChordSpans(Preview)

\* C15 on the descriptions whose tempo is positive
C15_ChordSpansAtPositiveTempo ==
    (Started /\ Preview.bpm > 0) => ChordSpans(Preview)

(***************************************************************************)
(* The chord sounding at a time of the render.                             *)
(***************************************************************************)
\* the instants at which the render is examined: every whole second before its end
Instants == {<<s, 1>> : s \in 0..(duration - 1)}
Sounding(e, t) ==
    IsFinite(e.start) /\ IsFinite(e.stop) /\ ~Before(t, e.start) /\ Before(t, e.stop)
\* floor(t / (4 x beatDuration)); 0 when the beat duration is infinite
ChordNumber(b, t) == (t[1] * b) \div (240 * t[2])
LayerEvents(p, layer) == IF layer = "harmony" THEN HarmonyEvents(p) ELSE BassEvents(p)
ChordsAt(p, layer, t) == {e.index[1] : e \in {x \in LayerEvents(p, layer) : Sounding(x, t)}}

\* C16: in an enabled harmony or bass layer a chord sounds at every time of the
\* render, and it is chord floor(t / (4 x beatDuration)) mod 4 of the progression
C16_CyclicProgression ==
    Started =>
        \A layer \in {"harmony", "bass"} \cap Preview.layers : \A t \in Instants :
            ChordsAt(Preview, layer, t) = {ChordNumber(Preview.bpm, t) % 4}

\* what the layers do at a positive tempo: the progression is played once, and
\* after 16 beat durations nothing sounds
C16_ProgressionPlayedOnce ==
    (Started /\ Preview.bpm > 0) =>
        \A layer \in {"harmony", "bass"} \cap Preview.layers : \A t \in Instants :
            ChordsAt(Preview, layer, t) =
                IF ChordNumber(Preview.bpm, t) < 4 THEN {ChordNumber(Preview.bpm, t)} ELSE {}

(***************************************************************************)
(* Properties of the App component.                                        *)
(***************************************************************************)
CallRunning == app.call.phase # "none"
AllResolved(tracks) == \A i \in 1..Len(tracks) : tracks[i].status = "resolved"
AsRecommendations(tracks) ==
    [i \in 1..Len(tracks) |->
        [id |-> tracks[i].id, musicDescription |-> tracks[i].musicDescription,
         previewUrl |-> tracks[i].previewUrl]]

C17_State ==
    /\ ~CallRunning => ~app.isLoading /\ app.loadingMessage = ""
    /\ CallRunning => app.isLoading /\ app.recommendations = <<>>
    /\ app.recommendations # <<>> =>
          /\ AllResolved(app.call.tracks)
          /\ app.recommendations = AsRecommendations(app.call.tracks)
          /\ \A i \in 1..Len(app.recommendations) : app.recommendations[i].previewUrl # NoUrl

C17_Step ==
    \* the end of a call
    /\ (CallRunning /\ ~CallRunning') =>
          /\ ~app'.isLoading /\ app'.loadingMessage = ""
          /\ IF app.call.phase = "synth" /\ AllResolved(app.call.tracks)
             THEN /\ app'.recommendations = AsRecommendations(app.call.tracks)
                  /\ app'.error = NoError
             ELSE /\ app'.recommendations = <<>>
                  /\ app'.error = Failed
    \* the start of a call
    /\ (~CallRunning /\ CallRunning') =>
          /\ app.topic # "" /\ app.story # ""
          /\ app'.recommendations = <<>> /\ app'.isLoading /\ app'.error = NoError
    \* a call with an empty topic or story
    /\ ((app.topic = "" \/ app.story = "") /\ \E isRefresh \in BOOLEAN : handleGenerate(isRefresh)) =>
          app' = [app EXCEPT !.error = FillInBoth]
    \* the list changes only at the start and at the end of a call
    /\ app'.recommendations # app.recommendations => (CallRunning # CallRunning')

Listed(id) ==
    \E i \in 1..Len(app.recommendations) :
        /\ app.recommendations[i].id = id
        /\ app.recommendations[i].previewUrl # NoUrl
        /\ app.recommendations[i].previewUrl \notin app.revoked

\* C18: playingTrackId is null or the id of a track of the current list whose
\* previewUrl has not been revoked
C18_PlayingTrackIsListed ==
    app.playingTrackId = NoTrack \/ Listed(app.playingTrackId)

\* what togglePlay itself does: on the playing track it sets null, on another
\* listed track it sets the id of that track
C18_TogglePlay ==
    [][\A i \in 1..Len(app.recommendations) :
          LET id == app.recommendations[i].id
          IN  togglePlay(id) =>
                /\ Listed(id)
                /\ app'.playingTrackId = IF app.playingTrackId = id THEN NoTrack ELSE id
                /\ app'.playingTrackId # NoTrack =>
                      ~app'.player.paused /\ app'.player.src = app.recommendations[i].previewUrl]_vars

\* the stale id is left by a handleGenerate call only
C18_StaleAfterGenerate ==
    (app.playingTrackId # NoTrack /\ ~Listed(app.playingTrackId)) =>
        /\ app.player.src \in app.revoked
        /\ app.hasGenerated

====
